---- MODULE Spec2Model ----
(***************************************************************************)
(* A model of puppetboard/utils.py: the error-mapping wrappers             *)
(* (get_or_abort, get_or_abort_except_client_errors), the version gate     *)
(* (check_db_version), the streaming guard (yield_or_stop), url_for_field, *)
(* formatvalue and check_env.                                              *)
(*                                                                         *)
(* Every helper is request scoped and shares no state with the others, so  *)
(* each has its own variable and its own specification (SpecAbort,         *)
(* SpecVersion, ...).  A variable holds the helper's last call: its inputs *)
(* and everything the call did that its caller or the process can observe. *)
(***************************************************************************)
EXTENDS Integers, Sequences, FiniteSets, TLC

VARIABLES
    goa,    \* the last call of get_or_abort / get_or_abort_except_client_errors
    ver,    \* the last run of check_db_version
    gen,    \* a yield_or_stop generator, its source and its consumer
    url,    \* the last call of url_for_field and the request it ran in
    fmt,    \* the last call of formatvalue
    envc    \* the last call of check_env

vars == <<goa, ver, gen, url, fmt, envc>>

(***************************************************************************)
(* Bounds of the model.                                                    *)
(***************************************************************************)
MaxStatus == 599    \* HTTP errors carry a status code in 1..MaxStatus
MaxRet == 2         \* a successful callable returns a value in 0..MaxRet
MaxMajor == 7       \* backend versions have a major number in 0..MaxMajor,
MaxMinor == 10      \* a minor number in 0..MaxMinor
MaxPatch == 14      \* and a patch number in 0..MaxPatch
MaxLen == 3         \* a source yields at most MaxLen elements,
MaxItem == 3        \* each in 1..MaxItem, before it ends
MaxRequests == 5    \* the consumer asks for at most MaxRequests elements
MaxArg == 2         \* a view or query argument has a value in 1..MaxArg
MaxWidth == 2       \* an innermost list or mapping has at most MaxWidth entries
MaxDepth == 2       \* lists and mappings nest to depth MaxDepth

(***************************************************************************)
(* The error-mapping wrapper.                                              *)
(*                                                                         *)
(* A callable is modelled by what one invocation of it does: it returns a  *)
(* value, or raises requests' HTTPError (whose response has a status       *)
(* code), requests' ConnectionError, pypuppetdb's EmptyResponseError or    *)
(* some other Exception.  A call is recorded as the sequence of events it  *)
(* produces, in order: invocations of the callable, log records, and the   *)
(* way the call ends (return, abort(code), or the re-raised error).        *)
(***************************************************************************)
Func(kind, val) == [kind |-> kind, val |-> val]

Funcs ==
    {Func("return", v) : v \in 0..MaxRet}
        \cup {Func("HTTPError", s) : s \in 1..MaxStatus}
        \cup {Func("ConnectionError", 0), Func("EmptyResponseError", 0),
              Func("Exception", 0)}

Event(kind, level, code, exc) ==
    [kind |-> kind, level |-> level, code |-> code, exc |-> exc]

CallEv == Event("call", "", 0, "")
ReturnEv(v) == Event("return", "", v, "")
LogEv(level) == Event("log", level, 0, "")
AbortEv(code) == Event("abort", "", code, "")
RaiseEv(func) == Event("raise", "", func.val, func.kind)

\* reading a record of events
Last(s) == s[Len(s)]
Indices(s, kind) == {i \in 1..Len(s) : s[i].kind = kind}
CountOf(s, kind) == Cardinality(Indices(s, kind))

\* get_or_abort with one retry on a connectivity error
_do_get_or_abort_retry(reraise_client_error, func) ==
    IF func.kind = "return"
    THEN <<CallEv, ReturnEv(func.val)>>
    ELSE IF func.kind = "HTTPError"
    THEN IF reraise_client_error /\ 400 <= func.val /\ func.val <= 499
         THEN <<CallEv, LogEv("warning"), RaiseEv(func)>>
         ELSE <<CallEv, LogEv("error"), AbortEv(func.val)>>
    ELSE IF func.kind = "ConnectionError"
    THEN <<CallEv, CallEv, LogEv("error"), AbortEv(500)>>
    ELSE IF func.kind = "EmptyResponseError"
    THEN <<CallEv, LogEv("error"), AbortEv(204)>>
    ELSE <<CallEv, LogEv("error"), AbortEv(500)>>

\* the client-error test with its upper limit dropped
_do_get_or_abort_no_upper(reraise_client_error, func) ==
    IF func.kind = "return"
    THEN <<CallEv, ReturnEv(func.val)>>
    ELSE IF func.kind = "HTTPError"
    THEN IF reraise_client_error /\ 400 <= func.val
         THEN <<CallEv, LogEv("warning"), RaiseEv(func)>>
         ELSE <<CallEv, LogEv("error"), AbortEv(func.val)>>
    ELSE IF func.kind = "ConnectionError"
    THEN <<CallEv, LogEv("error"), AbortEv(500)>>
    ELSE IF func.kind = "EmptyResponseError"
    THEN <<CallEv, LogEv("error"), AbortEv(204)>>
    ELSE <<CallEv, LogEv("error"), AbortEv(500)>>

\* the empty-response handler aborting like the connectivity handler
_do_get_or_abort_empty_500(reraise_client_error, func) ==
    IF func.kind = "return"
    THEN <<CallEv, ReturnEv(func.val)>>
    ELSE IF func.kind = "HTTPError"
    THEN IF reraise_client_error /\ 400 <= func.val /\ func.val <= 499
         THEN <<CallEv, LogEv("warning"), RaiseEv(func)>>
         ELSE <<CallEv, LogEv("error"), AbortEv(func.val)>>
    ELSE IF func.kind = "ConnectionError"
    THEN <<CallEv, LogEv("error"), AbortEv(500)>>
    ELSE IF func.kind = "EmptyResponseError"
    THEN <<CallEv, LogEv("error"), AbortEv(500)>>
    ELSE <<CallEv, LogEv("error"), AbortEv(500)>>

\* the re-raise branch without its log.warning
_do_get_or_abort_silent_reraise(reraise_client_error, func) ==
    IF func.kind = "return"
    THEN <<CallEv, ReturnEv(func.val)>>
    ELSE IF func.kind = "HTTPError"
    THEN IF reraise_client_error /\ 400 <= func.val /\ func.val <= 499
         THEN <<CallEv, RaiseEv(func)>>
         ELSE <<CallEv, LogEv("error"), AbortEv(func.val)>>
    ELSE IF func.kind = "ConnectionError"
    THEN <<CallEv, LogEv("error"), AbortEv(500)>>
    ELSE IF func.kind = "EmptyResponseError"
    THEN <<CallEv, LogEv("error"), AbortEv(204)>>
    ELSE <<CallEv, LogEv("error"), AbortEv(500)>>

\* try: return func(); except HTTPError / ConnectionError /
\* EmptyResponseError / Exception: log, then abort or raise
_do_get_or_abort(reraise_client_error, func) ==
    IF func.kind = "return"
    THEN <<CallEv, ReturnEv(func.val)>>
    ELSE IF func.kind = "HTTPError"
    THEN IF reraise_client_error /\ 400 <= func.val /\ func.val <= 499
         THEN <<CallEv, LogEv("warning"), RaiseEv(func)>>
         ELSE <<CallEv, LogEv("error"), AbortEv(func.val)>>
    ELSE IF func.kind = "ConnectionError"
    THEN <<CallEv, LogEv("error"), AbortEv(500)>>
    ELSE IF func.kind = "EmptyResponseError"
    THEN <<CallEv, LogEv("error"), AbortEv(204)>>
    ELSE <<CallEv, LogEv("error"), AbortEv(500)>>

GoaIdle == [entry |-> "none", func |-> Func("return", 0), trace |-> <<>>]

get_or_abort(func) ==
    /\ goa' = [entry |-> "get_or_abort", func |-> func,
               trace |-> _do_get_or_abort(FALSE, func)]
    /\ UNCHANGED <<ver, gen, url, fmt, envc>>

get_or_abort_except_client_errors(func) ==
    /\ goa' = [entry |-> "get_or_abort_except_client_errors", func |-> func,
               trace |-> _do_get_or_abort(TRUE, func)]
    /\ UNCHANGED <<ver, gen, url, fmt, envc>>

NextAbort ==
    \/ \E func \in Funcs : get_or_abort(func)
    \/ \E func \in Funcs : get_or_abort_except_client_errors(func)

(***************************************************************************)
(* The version gate.                                                       *)
(*                                                                         *)
(* Strings are sequences of characters.  The backend has a release (its    *)
(* major, minor and patch numbers; one to three of them) which             *)
(* current_version reports as a dotted decimal string, or it reports a     *)
(* string that is no version at all, or the call raises.  parse is         *)
(* packaging.version.parse on dotted decimal strings: it splits at the     *)
(* dots and reads each part as a decimal number.  A string it cannot read  *)
(* depends on the packaging build: before 22.0 parse returns a             *)
(* LegacyVersion, which orders below every Version; from 22.0 on it raises *)
(* InvalidVersion.                                                         *)
(***************************************************************************)
DigitChars == <<"0", "1", "2", "3", "4", "5", "6", "7", "8", "9">>
IsDigit(c) == \E d \in 1..10 : DigitChars[d] = c
DigitVal(c) == (CHOOSE d \in 1..10 : DigitChars[d] = c) - 1

RECURSIVE DecimalString(_)
DecimalString(n) ==
    IF n < 10 THEN <<DigitChars[n + 1]>>
    ELSE DecimalString(n \div 10) \o <<DigitChars[(n % 10) + 1]>>

RECURSIVE DottedString(_)
DottedString(release) ==
    IF Len(release) = 1 THEN DecimalString(release[1])
    ELSE DecimalString(release[1]) \o <<".">> \o DottedString(Tail(release))

Releases ==
    {<<a>> : a \in 0..MaxMajor}
        \cup {<<a, b>> : a \in 0..MaxMajor, b \in 0..MaxMinor}
        \cup {<<a, b, c>> : a \in 0..MaxMajor, b \in 0..MaxMinor, c \in 0..MaxPatch}

NotVersions == {<<>>, <<"x">>, <<"5", ".", "x">>, <<"5", ".", ".", "2">>}

PuppetDB(kind, release, raw) == [kind |-> kind, release |-> release, raw |-> raw]

PuppetDBs ==
    {PuppetDB("version", r, DottedString(r)) : r \in Releases}
        \cup {PuppetDB("garbage", <<>>, s) : s \in NotVersions}
        \cup {PuppetDB(e, <<>>, <<>>) :
                  e \in {"HTTPError", "ConnectionError", "EmptyResponseError"}}

\* the string puppetdb.current_version() returns
current_version(puppetdb) == puppetdb.raw

\* the parts of s between its dots
RECURSIVE SplitDots(_, _)
SplitDots(s, part) ==
    IF s = <<>> THEN <<part>>
    ELSE IF Head(s) = "." THEN <<part>> \o SplitDots(Tail(s), <<>>)
    ELSE SplitDots(Tail(s), Append(part, Head(s)))

RECURSIVE DecimalValue(_, _)
DecimalValue(digits, acc) ==
    IF digits = <<>> THEN acc
    ELSE DecimalValue(Tail(digits), 10 * acc + DigitVal(Head(digits)))

IsNumber(part) == part # <<>> /\ \A i \in 1..Len(part) : IsDigit(part[i])

\* packaging.version.parse: a Version with its release, or no Version
parse(version) ==
    LET parts == SplitDots(version, <<>>) IN
    IF \A i \in 1..Len(parts) : IsNumber(parts[i])
    THEN [valid |-> TRUE,
          release |-> [i \in 1..Len(parts) |-> DecimalValue(parts[i], 0)]]
    ELSE [valid |-> FALSE, release |-> <<>>]

\* Version._key's release: trailing zeros dropped
RECURSIVE StripZeros(_)
StripZeros(release) ==
    IF release # <<>> /\ release[Len(release)] = 0
    THEN StripZeros(SubSeq(release, 1, Len(release) - 1))
    ELSE release

\* Python's order on tuples of numbers
RECURSIVE TupleLess(_, _)
TupleLess(a, b) ==
    IF b = <<>> THEN FALSE
    ELSE IF a = <<>> THEN TRUE
    ELSE IF Head(a) # Head(b) THEN Head(a) < Head(b)
    ELSE TupleLess(Tail(a), Tail(b))

\* a < b on parsed versions; a LegacyVersion is below every Version
VersionLess(a, b) ==
    IF a.valid /\ b.valid THEN TupleLess(StripZeros(a.release), StripZeros(b.release))
    ELSE ~a.valid /\ b.valid

VersionLessEq(a, b) ==
    IF a.valid /\ b.valid THEN ~TupleLess(StripZeros(b.release), StripZeros(a.release))
    ELSE ~a.valid

\* the order of the characters a version string is made of
CharRank(c) == IF c = "." THEN 0 ELSE IF IsDigit(c) THEN DigitVal(c) + 1 ELSE 11

RECURSIVE StringLess(_, _)
StringLess(a, b) ==
    IF b = <<>> THEN FALSE
    ELSE IF a = <<>> THEN TRUE
    ELSE IF Head(a) # Head(b) THEN CharRank(Head(a)) < CharRank(Head(b))
    ELSE StringLess(Tail(a), Tail(b))

\* the range test on the strings themselves, without parse
InRangeUnparsed(lo, version, hi) ==
    ~StringLess(version, lo) /\ StringLess(version, hi)

\* parse(lo) <= parse(version) < parse(hi)
InRange(lo, version, hi) ==
    /\ VersionLessEq(parse(lo), parse(version))
    /\ VersionLess(parse(version), parse(hi))

ExitEv(code) == Event("exit", "", code, "")
UncaughtEv(exc) == Event("raise", "", 0, exc)

\* the body of check_db_version's try block once current_version returned
VersionChecks(version) ==
    IF InRange(<<"5", ".", "2", ".", "0">>, version, <<"5", ".", "2", ".", "1", "3">>)
    THEN <<LogEv("error"), ExitEv(1)>>
    ELSE IF InRange(<<"5", ".", "3", ".", "0">>, version, <<"5", ".", "3", ".", "1", "3">>)
    THEN <<LogEv("error"), ExitEv(1)>>
    ELSE IF InRange(<<"6", ".", "0", ".", "0">>, version, <<"6", ".", "9", ".", "1">>)
    THEN <<LogEv("error"), ExitEv(1)>>
    ELSE IF VersionLess(parse(version), parse(<<"5", ".", "2", ".", "1", "3">>))
    THEN <<LogEv("error"), ExitEv(1)>>
    ELSE <<ReturnEv(0)>>

\* check_db_version as the events of one run; raising_parse is the packaging
\* build: TRUE when parse raises InvalidVersion, FALSE when it returns a
\* LegacyVersion
CheckDbVersionRun(puppetdb, raising_parse) ==
    IF puppetdb.kind \in {"HTTPError", "ConnectionError", "EmptyResponseError"}
    THEN <<CallEv, LogEv("error"), ExitEv(2)>>
    ELSE LET version == current_version(puppetdb) IN
         IF raising_parse /\ ~parse(version).valid
         THEN <<CallEv, LogEv("info"), UncaughtEv("InvalidVersion")>>
         ELSE <<CallEv, LogEv("info")>> \o VersionChecks(version)

VerIdle ==
    [phase |-> "startup", puppetdb |-> PuppetDB("version", <<0>>, <<"0">>),
     raising_parse |-> FALSE, trace |-> <<>>]

\* check_db_version runs once, at startup; the process then serves, has
\* exited, or has died of the uncaught error
check_db_version(puppetdb, raising_parse) ==
    /\ ver.phase = "startup"
    /\ LET trace == CheckDbVersionRun(puppetdb, raising_parse) IN
       ver' = [phase |-> (IF Last(trace).kind = "return" THEN "serving"
                          ELSE IF Last(trace).kind = "exit" THEN "exited"
                          ELSE "crashed"),
               puppetdb |-> puppetdb, raising_parse |-> raising_parse,
               trace |-> trace]
    /\ UNCHANGED <<goa, gen, url, fmt, envc>>

NextVersion ==
    \E puppetdb \in PuppetDBs, raising_parse \in BOOLEAN :
        check_db_version(puppetdb, raising_parse)


(***************************************************************************)
(* The streaming guard.                                                    *)
(*                                                                         *)
(* A source is a generator: it yields its items in order and then ends, by *)
(* exhaustion (StopIteration) or by raising; once it has ended, next() on  *)
(* it raises StopIteration.  yield_or_stop(source) makes the guard, which  *)
(* runs only when its consumer asks it for an element.                     *)
(***************************************************************************)
RECURSIVE SeqsUpTo(_, _)
SeqsUpTo(S, n) ==
    IF n = 0 THEN {<<>>}
    ELSE LET shorter == SeqsUpTo(S, n - 1) IN
         shorter \cup {Append(s, x) : s \in shorter, x \in S}

SourceEnds ==
    {"StopIteration", "ConnectionError", "EmptyResponseError", "HTTPError", "Exception"}

Sources ==
    {[items |-> items, end |-> end] :
         items \in SeqsUpTo(1..MaxItem, MaxLen), end \in SourceEnds}

GenIdle ==
    [state |-> "none", source |-> [items |-> <<>>, end |-> "StopIteration"],
     pos |-> 0, source_ended |-> FALSE, out |-> <<>>, surfaced |-> "",
     requests |-> 0, pulls |-> 0, late_pulls |-> 0]

\* next(generator): what the source does when pulled
SourceNext(g) ==
    IF g.source_ended THEN [kind |-> "raise", val |-> 0, exc |-> "StopIteration"]
    ELSE IF g.pos < Len(g.source.items)
    THEN [kind |-> "item", val |-> g.source.items[g.pos + 1], exc |-> ""]
    ELSE [kind |-> "raise", val |-> 0, exc |-> g.source.end]

\* the guard's state after the pull itself
Pulled(g) ==
    [g EXCEPT !.pulls = @ + 1,
              !.late_pulls = IF g.source_ended THEN @ + 1 ELSE @,
              !.pos = IF SourceNext(g).kind = "item" THEN @ + 1 ELSE @,
              !.source_ended = SourceNext(g).kind = "raise"]

\* the except clause without ConnectionError
ResumeUncaughtConnection(g) ==
    LET r == SourceNext(g) IN
    IF r.kind = "item"
    THEN [Pulled(g) EXCEPT !.out = Append(@, r.val), !.state = "suspended"]
    ELSE IF r.exc \in {"EmptyResponseError", "HTTPError", "StopIteration"}
    THEN [Pulled(g) EXCEPT !.state = "finished"]
    ELSE [Pulled(g) EXCEPT !.state = "raised", !.surfaced = r.exc]

\* the guard resumed by its consumer: one turn of
\*   while True: try: yield next(generator)
\*               except (EmptyResponseError, ConnectionError, HTTPError,
\*                       StopIteration): return
Resume(g) ==
    LET r == SourceNext(g) IN
    IF r.kind = "item"
    THEN [Pulled(g) EXCEPT !.out = Append(@, r.val), !.state = "suspended"]
    ELSE IF r.exc \in {"EmptyResponseError", "ConnectionError", "HTTPError", "StopIteration"}
    THEN [Pulled(g) EXCEPT !.state = "finished"]
    ELSE [Pulled(g) EXCEPT !.state = "raised", !.surfaced = r.exc]

\* calling yield_or_stop makes the generator; none of its body runs yet
yield_or_stop(generator) ==
    /\ gen.state = "none"
    /\ gen' = [GenIdle EXCEPT !.state = "suspended", !.source = generator]
    /\ UNCHANGED <<goa, ver, url, fmt, envc>>

\* the consumer asks the guard for its next element
ConsumerNext ==
    /\ gen.state \in {"suspended", "finished", "raised"}
    /\ gen.requests < MaxRequests
    /\ gen' = IF gen.state = "suspended"
              THEN [Resume(gen) EXCEPT !.requests = @ + 1]
              ELSE [gen EXCEPT !.requests = @ + 1]
    /\ UNCHANGED <<goa, ver, url, fmt, envc>>

NextYield ==
    \/ \E generator \in Sources : yield_or_stop(generator)
    \/ ConsumerNext

(***************************************************************************)
(* url_for_field.                                                          *)
(*                                                                         *)
(* A request has an endpoint, the view arguments its route matched and the *)
(* arguments of its query string, each a mapping from names to values.     *)
(* Flask's url_for(endpoint, **values) is kept as the pair it is given.    *)
(***************************************************************************)
ArgNames == {"env", "page", "status"}
Endpoints == {"nodes", "reports"}
Dicts == UNION {[names -> 1..MaxArg] : names \in SUBSET ArgNames}
EmptyDict == <<>>

Requests ==
    {[endpoint |-> e, view_args |-> v, args |-> a] :
         e \in Endpoints, v \in Dicts, a \in Dicts}

\* d.update(e)
DictUpdate(d, e) ==
    [k \in DOMAIN d \cup DOMAIN e |-> IF k \in DOMAIN e THEN e[k] ELSE d[k]]

\* d[key] = value
DictSet(d, key, value) ==
    [k \in DOMAIN d \cup {key} |-> IF k = key THEN value ELSE d[k]]

url_for(endpoint, values) == [endpoint |-> endpoint, values |-> values]

\* url_for_field without the copy of request.view_args
UrlForFieldInPlace(request, field, value) ==
    LET args == DictSet(DictUpdate(request.view_args, request.args), field, value) IN
    [request |-> [request EXCEPT !.view_args = args],
     result |-> url_for(request.endpoint, args)]

\* the body of url_for_field: the request as the call leaves it, and the URL
UrlForField(request, field, value) ==
    LET args == DictSet(DictUpdate(request.view_args, request.args), field, value) IN
    [request |-> request, result |-> url_for(request.endpoint, args)]

NoRequest == [endpoint |-> "", view_args |-> EmptyDict, args |-> EmptyDict]

UrlIdle ==
    [request |-> NoRequest, called |-> FALSE, before |-> NoRequest,
     field |-> "", value |-> 0, result |-> url_for("", EmptyDict)]

\* a request enters its request context
RequestArrives(request) ==
    /\ url.request = NoRequest
    /\ url' = [UrlIdle EXCEPT !.request = request]
    /\ UNCHANGED <<goa, ver, gen, fmt, envc>>

url_for_field(field, value) ==
    /\ url.request # NoRequest
    /\ LET done == UrlForField(url.request, field, value) IN
       url' = [request |-> done.request, called |-> TRUE, before |-> url.request,
               field |-> field, value |-> value, result |-> done.result]
    /\ UNCHANGED <<goa, ver, gen, fmt, envc>>

NextUrl ==
    \/ \E request \in Requests : RequestArrives(request)
    \/ \E field \in ArgNames, value \in 1..MaxArg : url_for_field(field, value)

(***************************************************************************)
(* formatvalue.                                                            *)
(*                                                                         *)
(* A value is a str, an int (standing for every type that is neither str,  *)
(* list nor dict), a list of values, or a dict: its keys in insertion      *)
(* order, each a str or an int, and the value of each.  Containers that    *)
(* hold containers have one entry.  Python strings are TLA+ strings.       *)
(***************************************************************************)
Value(tag, s, n, keys, items) ==
    [tag |-> tag, s |-> s, n |-> n, keys |-> keys, items |-> items]
StrValue(s) == Value("str", s, 0, <<>>, <<>>)
IntValue(n) == Value("int", "", n, <<>>, <<>>)
ListValue(items) == Value("list", "", 0, <<>>, items)
DictValue(keys, items) == Value("dict", "", 0, keys, items)

Atoms == {StrValue("a"), StrValue("1"), IntValue(7)}
Keys == {StrValue("a"), StrValue("b"), IntValue(1)}

Distinct(s) == \A i, j \in 1..Len(s) : s[i] = s[j] => i = j

Containers(S, width) ==
    {ListValue(items) : items \in SeqsUpTo(S, width)}
        \cup {DictValue(keys, items) :
                  keys \in {ks \in SeqsUpTo(Keys, width) : Distinct(ks)},
                  items \in {vs \in SeqsUpTo(S, width) : TRUE}}

RECURSIVE ValuesOfDepth(_)
ValuesOfDepth(d) ==
    IF d = 0 THEN Atoms
    ELSE LET inner == ValuesOfDepth(d - 1) IN
         inner \cup {v \in Containers(inner, IF d = 1 THEN MaxWidth ELSE 1) :
                         v.tag = "dict" => Len(v.keys) = Len(v.items)}

Values == ValuesOfDepth(MaxDepth)

Returned(s) == [raised |-> FALSE, exc |-> "", s |-> s]
Raised(exc) == [raised |-> TRUE, exc |-> exc, s |-> ""]

RECURSIVE formatvalue(_), JoinFormatted(_), FormatEntries(_, _, _)

\* ", ".join(map(formatvalue, value))
JoinFormatted(items) ==
    IF items = <<>> THEN Returned("")
    ELSE LET first == formatvalue(Head(items)) IN
         IF first.raised THEN first
         ELSE IF Len(items) = 1 THEN first
         ELSE LET rest == JoinFormatted(Tail(items)) IN
              IF rest.raised THEN rest
              ELSE Returned(first.s \o ", " \o rest.s)

\* for k in value: ret += k + " => " + formatvalue(value[k]) + ",<br/>"
\* k + " => " is a TypeError unless k is a str
FormatEntries(keys, items, ret) ==
    IF keys = <<>> THEN Returned(ret)
    ELSE IF Head(keys).tag # "str" THEN Raised("TypeError")
    ELSE LET formatted == formatvalue(Head(items)) IN
         IF formatted.raised THEN formatted
         ELSE FormatEntries(Tail(keys), Tail(items),
                            ret \o Head(keys).s \o " => " \o formatted.s \o ",<br/>")

formatvalue(value) ==
    IF value.tag = "str" THEN Returned(value.s)
    ELSE IF value.tag = "list" THEN JoinFormatted(value.items)
    ELSE IF value.tag = "dict" THEN FormatEntries(value.keys, value.items, "")
    ELSE Returned(ToString(value.n))

FmtIdle == [called |-> FALSE, value |-> StrValue(""), result |-> Returned("")]

FormatValue(value) ==
    /\ fmt' = [called |-> TRUE, value |-> value, result |-> formatvalue(value)]
    /\ UNCHANGED <<goa, ver, gen, url, envc>>

NextFormat == \E value \in Values : FormatValue(value)

(***************************************************************************)
(* check_env.                                                              *)
(***************************************************************************)
EnvNames == {"*", "production", "dev", "qa", "test"}

\* check_env with the wildcard test left out
CheckEnvNoWildcard(env, envs) ==
    IF env \notin envs THEN <<AbortEv(404)>> ELSE <<ReturnEv(0)>>

\* if env != '*' and env not in envs: abort(404)
CheckEnv(env, envs) ==
    IF env # "*" /\ env \notin envs THEN <<AbortEv(404)>> ELSE <<ReturnEv(0)>>

EnvIdle == [called |-> FALSE, env |-> "*", envs |-> {}, trace |-> <<>>]

check_env(env, envs) ==
    /\ envc' = [called |-> TRUE, env |-> env, envs |-> envs,
                trace |-> CheckEnv(env, envs)]
    /\ UNCHANGED <<goa, ver, gen, url, fmt>>

NextEnv == \E env \in EnvNames, envs \in SUBSET EnvNames : check_env(env, envs)

(***************************************************************************)
(* The specifications: one per helper, since the helpers share no state.   *)
(***************************************************************************)
Init ==
    /\ goa = GoaIdle
    /\ ver = VerIdle
    /\ gen = GenIdle
    /\ url = UrlIdle
    /\ fmt = FmtIdle
    /\ envc = EnvIdle

SpecAbort == Init /\ [][NextAbort]_vars
SpecVersion == Init /\ [][NextVersion]_vars
SpecYield == Init /\ [][NextYield]_vars
SpecUrl == Init /\ [][NextUrl]_vars
SpecFormat == Init /\ [][NextFormat]_vars
SpecEnv == Init /\ [][NextEnv]_vars

\* The three helpers that call the backend.  They share no state, so a
\* behaviour follows one of them: a helper runs while the other two are idle.
NextBackend ==
    \/ ver = VerIdle /\ gen = GenIdle /\ NextAbort
    \/ goa = GoaIdle /\ gen = GenIdle /\ NextVersion
    \/ goa = GoaIdle /\ ver = VerIdle /\ NextYield

SpecBackend == Init /\ [][NextBackend]_vars

(***************************************************************************)
(* Claims about the error-mapping wrapper.                                 *)
(***************************************************************************)
GoaCalled == goa.entry # "none"
GoaExcept == goa.entry = "get_or_abort_except_client_errors"
GoaEnd == Last(goa.trace)

\* C1: when the callable raises an HTTP error with status s,
\* get_or_abort_except_client_errors re-raises the original error (and does
\* not abort) for s in 400..499 and aborts with exactly s for every other s;
\* get_or_abort aborts with exactly s for every s and never re-raises.
C1_HttpErrorMapping ==
    (GoaCalled /\ goa.func.kind = "HTTPError") =>
        IF GoaExcept /\ goa.func.val \in 400..499
        THEN /\ GoaEnd.kind = "raise"
             /\ GoaEnd.exc = "HTTPError"
             /\ GoaEnd.code = goa.func.val
             /\ CountOf(goa.trace, "abort") = 0
        ELSE /\ GoaEnd.kind = "abort"
             /\ GoaEnd.code = goa.func.val
             /\ CountOf(goa.trace, "raise") = 0

C1_Witness ==
    /\ GoaExcept
    /\ goa.func = Func("HTTPError", 404)
    /\ GoaEnd = RaiseEv(goa.func)

\* C2: for both values of the flag, a connectivity error aborts with 500, an
\* empty-response error with 204 and any other unclassified error with 500;
\* none of the three is re-raised.
C2_FixedStatusMapping ==
    (GoaCalled /\ goa.func.kind \in {"ConnectionError", "EmptyResponseError", "Exception"}) =>
        /\ GoaEnd.kind = "abort"
        /\ GoaEnd.code = (IF goa.func.kind = "EmptyResponseError" THEN 204 ELSE 500)
        /\ CountOf(goa.trace, "raise") = 0

C2_Witness ==
    /\ GoaExcept
    /\ goa.func.kind = "EmptyResponseError"
    /\ GoaEnd = AbortEv(204)

\* C9: a call in which the callable raises writes exactly one log record,
\* before the abort or the re-raise (warning level for a re-raise, error
\* level for an abort); a successful call writes none.
C9_LoggedOnceBeforeEnd ==
    GoaCalled =>
        IF goa.func.kind = "return"
        THEN CountOf(goa.trace, "log") = 0
        ELSE /\ CountOf(goa.trace, "log") = 1
             /\ GoaEnd.kind \in {"abort", "raise"}
             /\ \A i \in Indices(goa.trace, "log") :
                    /\ i < Len(goa.trace)
                    /\ \A j \in Indices(goa.trace, "abort") \cup Indices(goa.trace, "raise") : i < j
                    /\ goa.trace[i].level =
                           (IF GoaEnd.kind = "raise" THEN "warning" ELSE "error")

C9_Witness ==
    /\ GoaExcept
    /\ goa.func = Func("HTTPError", 403)
    /\ goa.trace[2] = LogEv("warning")
    /\ GoaEnd.kind = "raise"

\* C10, the wrapper's part: one invocation of the callable per call, and the
\* callable's result returned unchanged.
GoaNoRetry ==
    GoaCalled =>
        /\ CountOf(goa.trace, "call") = 1
        /\ goa.trace[1] = CallEv
        /\ (goa.func.kind = "return" => GoaEnd = ReturnEv(goa.func.val))

(***************************************************************************)
(* Claims about the version gate.  The claims speak of the backend's       *)
(* release, the numbers themselves, ordered as semantic versions: missing  *)
(* minor and patch numbers count as 0.                                     *)
(***************************************************************************)
VerRan == ver.phase # "startup"
VerEnd == Last(ver.trace)
Triple(release) == [i \in 1..3 |-> IF i <= Len(release) THEN release[i] ELSE 0]
SemverLess(a, b) ==
    \/ a[1] < b[1]
    \/ a[1] = b[1] /\ a[2] < b[2]
    \/ a[1] = b[1] /\ a[2] = b[2] /\ a[3] < b[3]
SemverWithin(lo, v, hi) == ~SemverLess(v, lo) /\ SemverLess(v, hi)
KnownBad(v) ==
    \/ SemverWithin(<<5, 2, 0>>, v, <<5, 2, 13>>)
    \/ SemverWithin(<<5, 3, 0>>, v, <<5, 3, 13>>)
    \/ SemverWithin(<<6, 0, 0>>, v, <<6, 9, 1>>)
    \/ SemverLess(v, <<5, 2, 13>>)
VersionUndetermined ==
    ver.puppetdb.kind \in {"garbage", "HTTPError", "ConnectionError", "EmptyResponseError"}

C4_UndeterminedExitsTwo ==
    VerRan =>
        /\ VersionUndetermined =>
               /\ VerEnd = ExitEv(2)
               /\ \E i \in Indices(ver.trace, "log") : ver.trace[i].level = "error"
        /\ VerEnd = ExitEv(2) => VersionUndetermined
        /\ VerEnd = ExitEv(1) => ~VersionUndetermined

\* C10, the version gate's part: current_version is called once per run.
VerNoRetry ==
    VerRan => CountOf(ver.trace, "call") = 1 /\ ver.trace[1] = CallEv

(***************************************************************************)
(* Claims about the streaming guard.                                       *)
(***************************************************************************)
GenMade == gen.state # "none"
Min(a, b) == IF a < b THEN a ELSE b
EndsQuietly ==
    gen.source.end \in {"StopIteration", "ConnectionError", "EmptyResponseError", "HTTPError"}

\* C5: what the guard produces is exactly the elements the source yielded
\* before its first connectivity, empty-response or HTTP error or its
\* exhaustion, in order, none duplicated, dropped or re-ordered (one more of
\* them per request); the guard then ends cleanly and none of the three
\* errors surfaces to the consumer.
C5_SamePrefixThenStop ==
    GenMade =>
        /\ Len(gen.out) = Min(gen.requests, Len(gen.source.items))
        /\ gen.out = SubSeq(gen.source.items, 1, Len(gen.out))
        /\ EndsQuietly =>
               /\ gen.surfaced = ""
               /\ gen.state # "raised"
               /\ gen.requests > Len(gen.source.items) => gen.state = "finished"
               /\ gen.state = "finished" => gen.out = gen.source.items

C5_Witness ==
    /\ gen.source = [items |-> <<1, 2, 3>>, end |-> "ConnectionError"]
    /\ gen.state = "finished"
    /\ gen.out = <<1, 2, 3>>

\* C10, the guard's part: at most one pull from the source per element the
\* consumer asks for, and no pull after the source has raised or is
\* exhausted.
GenNoRetry ==
    GenMade =>
        /\ gen.pulls <= gen.requests
        /\ gen.late_pulls = 0
        /\ gen.source_ended => gen.pulls = Len(gen.source.items) + 1

(***************************************************************************)
(* Claims about url_for_field.                                             *)
(***************************************************************************)
UrlValues == url.result.values
UrlFrame ==
    /\ url.request = url.before
    /\ url.result.endpoint = url.before.endpoint
    /\ DOMAIN UrlValues =
           DOMAIN url.before.view_args \cup DOMAIN url.before.args \cup {url.field}
    /\ UrlValues[url.field] = url.value

\* C6 as first stated: field maps to value, and every other view argument
\* and every other query argument of the request is present with its value
\* unchanged; the request's view_args and args are not modified.
C6_AllArgumentsKept ==
    url.called =>
        /\ UrlFrame
        /\ \A k \in DOMAIN url.before.view_args \ {url.field} :
               UrlValues[k] = url.before.view_args[k]
        /\ \A k \in DOMAIN url.before.args \ {url.field} :
               UrlValues[k] = url.before.args[k]

\* C6, amended: field maps to value; every other query argument is present
\* with its value unchanged; every other view argument is present, with its
\* own value unless the query has an argument of the same name, whose value
\* it then takes; the request's view_args and args are not modified.
C6_QueryOverridesView ==
    url.called =>
        /\ UrlFrame
        /\ \A k \in DOMAIN url.before.args \ {url.field} :
               UrlValues[k] = url.before.args[k]
        /\ \A k \in DOMAIN url.before.view_args \ {url.field} :
               UrlValues[k] = IF k \in DOMAIN url.before.args
                              THEN url.before.args[k]
                              ELSE url.before.view_args[k]

C6_Witness ==
    /\ url.called
    /\ url.field = "page"
    /\ url.before.view_args = [k \in {"env", "page"} |-> 1]
    /\ url.before.args = [k \in {"env", "status"} |-> 2]
    /\ UrlValues = [k \in ArgNames |-> IF k = "page" THEN url.value ELSE 2]

(***************************************************************************)
(* Claims about formatvalue.                                               *)
(***************************************************************************)
RECURSIVE Rendered(_), RenderedList(_), RenderedEntries(_, _)
KeyText(key) == IF key.tag = "str" THEN key.s ELSE ToString(key.n)
RenderedList(items) ==
    IF items = <<>> THEN ""
    ELSE IF Len(items) = 1 THEN Rendered(items[1])
    ELSE Rendered(items[1]) \o ", " \o RenderedList(Tail(items))
RenderedEntries(keys, items) ==
    IF keys = <<>> THEN ""
    ELSE KeyText(keys[1]) \o " => " \o Rendered(items[1]) \o ",<br/>"
             \o RenderedEntries(Tail(keys), Tail(items))
Rendered(value) ==
    IF value.tag = "str" THEN value.s
    ELSE IF value.tag = "list" THEN RenderedList(value.items)
    ELSE IF value.tag = "dict" THEN RenderedEntries(value.keys, value.items)
    ELSE ToString(value.n)

\* C7: for every value, nested to any depth, mappings with keys of any type
\* included, formatvalue returns a string without raising: a string
\* unchanged, a sequence as its formatted elements joined with ", ", a
\* mapping as `key => formatted(value),<br/>` for each key in insertion
\* order, anything else as its default string representation.
C7_FormatsEveryValue ==
    fmt.called =>
        /\ ~fmt.result.raised
        /\ fmt.result.s = Rendered(fmt.value)

(***************************************************************************)
(* Claims about check_env.                                                 *)
(***************************************************************************)
\* C8: check_env(env, envs) returns silently if and only if env is the
\* wildcard * or a member of envs; in every other case, an empty envs
\* included, it aborts the request with status 404.
C8_KnownOrWildcard ==
    envc.called =>
        IF envc.env = "*" \/ envc.env \in envc.envs
        THEN envc.trace = <<ReturnEv(0)>>
        ELSE envc.trace = <<AbortEv(404)>>

C8_Witness ==
    /\ envc.called
    /\ envc.env = "qa"
    /\ envc.envs = {"production", "dev"}
    /\ envc.trace = <<AbortEv(404)>>

(***************************************************************************)
(* No helper retries a backend call.                                       *)
(***************************************************************************)
\* C10: _do_get_or_abort invokes the callable exactly once per call and
\* returns its result unchanged; check_db_version calls current_version
\* exactly once per run; yield_or_stop pulls from its source at most once per
\* element asked for and never again after the source has raised or is
\* exhausted.
C10_NoRetry == GoaNoRetry /\ VerNoRetry /\ GenNoRetry

C10_Witness ==
    /\ goa.func.kind = "ConnectionError"
    /\ CountOf(goa.trace, "call") = 1
    /\ GoaEnd = AbortEv(500)

====
